---- MODULE Spec2Model ----
(***************************************************************************)
(* A model of the practice-session state machine and grading engine of     *)
(* pbq_practice_app.py.  The state is Streamlit's st.session_state; one    *)
(* action is one user event (a button, a radio, a selectbox, a checkbox...)*)
(* together with the script runs it causes, up to the run that ends        *)
(* without st.rerun().                                                     *)
(***************************************************************************)
EXTENDS Integers, Sequences, FiniteSets, TLC

(***************************************************************************)
(* Bounds of the model.                                                    *)
(***************************************************************************)
\* how many practice sessions one behaviour starts
MaxSessions == 2

(***************************************************************************)
(* Python values.  The app stores str, list, dict and None in the same     *)
(* slots, so every value carries its type tag.                             *)
(***************************************************************************)
PyNone == [t |-> "None", v |-> ""]
PyStr(s) == [t |-> "str", v |-> s]
PyList(l) == [t |-> "list", v |-> l]
PyDict(d) == [t |-> "dict", v |-> d]
EmptyDict == PyDict(<<>>)

\* Python's ==
PyEq(a, b) == a.t = b.t /\ a.v = b.v

\* Python's truth value of an object
Truthy(x) ==
    CASE x.t = "None" -> FALSE
      [] x.t = "str" -> x.v # ""
      [] x.t = "list" -> x.v # <<>>
      [] x.t = "dict" -> DOMAIN x.v # {}
      [] OTHER -> TRUE

\* dict.get(k, default) on the mapping of a dict
Get(d, k, default) == IF k \in DOMAIN d THEN d[k] ELSE default

\* str(i) for the indices the app formats
StrOf(i) == <<"0", "1", "2", "3", "4", "5", "6", "7", "8", "9">>[i + 1]

\* f"{rule_idx}_{field}"
FwKey(rule_idx, field) == StrOf(rule_idx) \o "_" \o field

\* the elements of a list, as set() gives them
ToSet(l) == {l[i] : i \in DOMAIN l}

\* the permutations of a list: what random.shuffle / random.sample can give
Perms(l) ==
    {[i \in DOMAIN l |-> l[f[i]]] :
        f \in {g \in [DOMAIN l -> DOMAIN l] :
                  \A i, j \in DOMAIN l : g[i] = g[j] => i = j}}

\* list[:n]
Take(l, n) == SubSeq(l, 1, IF n < Len(l) THEN n ELSE Len(l))

(***************************************************************************)
(* JSON text.  A question's correct_answer is a str holding JSON; the      *)
(* model keeps the text as the value it encodes, or as malformed text.     *)
(***************************************************************************)
JsonText(d) == [t |-> "str", v |-> "<json>", ok |-> TRUE, val |-> PyDict(d)]
BadJsonText == [t |-> "str", v |-> "{not json", ok |-> FALSE, val |-> PyNone]

\* a decoder that reads malformed text as the empty object
json_loads_lenient(raw) ==
    IF "ok" \in DOMAIN raw /\ raw.ok
    THEN [raised |-> FALSE, value |-> raw.val]
    ELSE [raised |-> FALSE, value |-> [t |-> "dict", v |-> <<>>]]

\* json.loads: the decoded value, or the exception it raises
json_loads(raw) ==
    IF "ok" \in DOMAIN raw /\ raw.ok
    THEN [raised |-> FALSE, value |-> raw.val]
    ELSE [raised |-> TRUE, value |-> PyNone]

(***************************************************************************)
(* Questions of the bank (the persisted record shape).                     *)
(***************************************************************************)
fields == <<"rule", "source_ip", "dest_ip", "protocol", "port", "action">>

NoPbqData ==
    [instructions |-> "", matching_items |-> <<>>, all_options |-> <<>>,
     is_multi_select |-> FALSE, firewall_rules |-> <<>>]

RegularQuestion(text, opts, correct) ==
    [type |-> "Multiple Choice", question |-> text, options |-> opts,
     correct_answer |-> PyStr(correct), is_pbq |-> FALSE, pbq_data |-> NoPbqData]

MatchingQuestion(instr, items, opts, multi, correct) ==
    [type |-> "PBQ - Classification/Matching", question |-> instr, options |-> <<>>,
     correct_answer |-> correct, is_pbq |-> TRUE,
     pbq_data |-> [instructions |-> instr, matching_items |-> items,
                   all_options |-> opts, is_multi_select |-> multi,
                   firewall_rules |-> <<>>]]

FirewallQuestion(instr, rules, correct) ==
    [type |-> "PBQ - Firewall Rules", question |-> instr, options |-> <<>>,
     correct_answer |-> correct, is_pbq |-> TRUE,
     pbq_data |-> [instructions |-> instr, matching_items |-> <<>>,
                   all_options |-> <<>>, is_multi_select |-> FALSE,
                   firewall_rules |-> rules]]

\* question.get('type', '').replace('PBQ - ', '')
PbqType(question) ==
    CASE question.type = "PBQ - Classification/Matching" -> "Classification/Matching"
      [] question.type = "PBQ - Firewall Rules" -> "Firewall Rules"
      [] OTHER -> question.type

Reg1 == RegularQuestion("r1", <<"A", "B">>, "A")
Reg2 == RegularQuestion("r2", <<"A", "B">>, "B")
Reg3 == RegularQuestion("r3", <<"A", "B">>, "A")
\* a regular question with one option
Reg4 == RegularQuestion("r4", <<"A">>, "A")

\* single-select, two items; the correct value of the second item is not
\* among the options, so at most half of the items can be answered right
Match1 ==
    MatchingQuestion("m1", <<"item a", "item b">>, <<"X">>, FALSE,
        JsonText([k \in {"0", "1"} |-> IF k = "0" THEN PyStr("X") ELSE PyStr("Y")]))

\* multi-select, one item; the stored correct value is a list with a
\* repeated element, in another order than all_options
Match2 ==
    MatchingQuestion("m2", <<"item c">>, <<"P", "Q">>, TRUE,
        JsonText([k \in {"0"} |-> PyList(<<"Q", "P", "Q">>)]))

\* multi-select, one item; the stored correct value is a bare scalar
Match3 ==
    MatchingQuestion("m3", <<"item d">>, <<"P", "Q">>, TRUE,
        JsonText([k \in {"0"} |-> PyStr("P")]))

Rule1 ==
    [rule_options |-> <<"1">>, source_ip_options |-> <<"10.0.0.1">>,
     dest_ip_options |-> <<"10.0.0.2">>, protocol_options |-> <<"TCP">>,
     port_options |-> <<"443">>, action_options |-> <<"ALLOW">>]

Fw1Correct ==
    [k \in {FwKey(0, fields[f]) : f \in DOMAIN fields} |->
        CASE k = "0_rule" -> PyStr("1")
          [] k = "0_source_ip" -> PyStr("10.0.0.1")
          [] k = "0_dest_ip" -> PyStr("10.0.0.2")
          [] k = "0_protocol" -> PyStr("TCP")
          [] k = "0_port" -> PyStr("443")
          [] OTHER -> PyStr("ALLOW")]

Fw1 == FirewallQuestion("f1", <<Rule1>>, JsonText(Fw1Correct))

\* regular questions with one option
Reg5 == RegularQuestion("r5", <<"A">>, "A")
Reg6 == RegularQuestion("r6", <<"A">>, "A")

\* single-select, one item; correct_answer is not JSON
MatchBad == MatchingQuestion("mb", <<"item e">>, <<"X">>, FALSE, BadJsonText)

\* a Classification/Matching question without items
MatchEmpty == MatchingQuestion("me", <<>>, <<>>, FALSE, JsonText(<<>>))

\* multi-select, one item; the correct value is the list of both options
Match4 ==
    MatchingQuestion("m4", <<"item f">>, <<"P", "Q">>, TRUE,
        JsonText([k \in {"0"} |-> PyList(<<"P", "Q">>)]))

\* single-select, three items, each with the correct value X
Match5 ==
    MatchingQuestion("m5", <<"item g", "item h", "item i">>, <<"X">>, FALSE,
        JsonText([k \in {"0", "1", "2"} |-> PyStr("X")]))

\* a Firewall Rules question without rules
FwEmpty == FirewallQuestion("fe", <<>>, JsonText(<<>>))

\* the question banks load_question_bank() may return in this model
Banks ==
    {<<Match3>>,
     <<Reg1, Reg2, Reg3>>,
     <<Reg1, Fw1>>,
     <<Match1, Match2>>,
     <<Reg4, Reg5, Reg1, Reg6>>,
     <<MatchBad, MatchEmpty, FwEmpty>>,
     <<Match4, Reg1>>,
     <<Reg1, Match5>>}

(***************************************************************************)
(* The score snapshot.  accuracy is correct / total_answered * 100, kept   *)
(* as the exact fraction num/den in lowest terms.                          *)
(***************************************************************************)
RECURSIVE Gcd(_, _)
Gcd(a, b) == IF b = 0 THEN a ELSE Gcd(b, a % b)

Fraction(n, d) == [num |-> n \div Gcd(n, d), den |-> d \div Gcd(n, d)]

\* (correct / total) * 100 if total > 0 else 0
Accuracy(correct, total) ==
    IF total > 0 THEN Fraction(correct * 100, total) ELSE [num |-> 0, den |-> 1]

Max(a, b) == IF a >= b THEN a ELSE b

(***************************************************************************)
(* calculate_real_time_score                                               *)
(***************************************************************************)
\* a real-time verdict that asks for more than half of the items
RealTimePbqVerdictStrict(question, user_answer) ==
    IF Truthy(user_answer) /\ user_answer.t = "dict"
    THEN LET parsed == json_loads(question.correct_answer)
         IN  IF parsed.raised \/ parsed.value.t # "dict"
             THEN "incorrect"
             ELSE LET correct_answers == parsed.value.v
                      total_items == Cardinality(DOMAIN correct_answers)
                      correct_items ==
                          Cardinality({item_key \in DOMAIN correct_answers :
                              PyEq(Get(user_answer.v, item_key, PyNone),
                                   correct_answers[item_key])})
                  IN  IF total_items > 0
                      THEN IF 2 * correct_items > total_items
                           THEN "correct" ELSE "incorrect"
                      ELSE "unanswered"
    ELSE "unanswered"

\* the verdict of one PBQ in the real-time pass
RealTimePbqVerdict(question, user_answer) ==
    IF Truthy(user_answer) /\ user_answer.t = "dict"
    THEN LET parsed == json_loads(question.correct_answer)
         IN  IF parsed.raised \/ parsed.value.t # "dict"
             THEN "incorrect"
             ELSE LET correct_answers == parsed.value.v
                      total_items == Cardinality(DOMAIN correct_answers)
                      correct_items ==
                          Cardinality({item_key \in DOMAIN correct_answers :
                              PyEq(Get(user_answer.v, item_key, PyNone),
                                   correct_answers[item_key])})
                  IN  IF total_items > 0
                      THEN IF 2 * correct_items >= total_items
                           THEN "correct" ELSE "incorrect"
                      ELSE "unanswered"
    ELSE "unanswered"

\* the verdict of one regular question in the real-time pass
RealTimeRegularVerdict(question, user_answer) ==
    IF user_answer.t = "None" THEN "unanswered"
    ELSE IF PyEq(user_answer, question.correct_answer) THEN "correct"
    ELSE "incorrect"

RealTimeVerdict(question, user_answer) ==
    IF question.is_pbq
    THEN RealTimePbqVerdict(question, user_answer)
    ELSE RealTimeRegularVerdict(question, user_answer)

\* a loop body whose best_streak follows the current streak instead of its maximum
RealTimeStepBestIsCurrent(verdict, acc) ==
    CASE verdict = "correct" ->
            [acc EXCEPT !.correct = @ + 1,
                        !.current_streak = @ + 1,
                        !.best_streak = acc.current_streak + 1]
      [] verdict = "incorrect" ->
            [acc EXCEPT !.incorrect = @ + 1, !.current_streak = 0]
      [] OTHER ->
            [acc EXCEPT !.unanswered = @ + 1, !.current_streak = 0]

\* one pass of the for loop: the counters after question i
RealTimeStep(verdict, acc) ==
    CASE verdict = "correct" ->
            [acc EXCEPT !.correct = @ + 1,
                        !.current_streak = @ + 1,
                        !.best_streak = Max(@, acc.current_streak + 1)]
      [] verdict = "incorrect" ->
            [acc EXCEPT !.incorrect = @ + 1, !.current_streak = 0]
      [] OTHER ->
            [acc EXCEPT !.unanswered = @ + 1, !.current_streak = 0]

RECURSIVE RealTimeLoop(_, _, _, _)
RealTimeLoop(questions, answers, i, acc) ==
    IF i >= Len(questions) THEN acc
    ELSE RealTimeLoop(questions, answers, i + 1,
            RealTimeStep(RealTimeVerdict(questions[i + 1], Get(answers, i, PyNone)), acc))

\* the value calculate_real_time_score() leaves in real_time_score
calculate_real_time_score(questions, answers, old_score) ==
    IF questions = <<>> THEN old_score
    ELSE LET acc == RealTimeLoop(questions, answers, 0,
                        [correct |-> 0, incorrect |-> 0, unanswered |-> 0,
                         current_streak |-> 0, best_streak |-> 0])
             total_answered == acc.correct + acc.incorrect
         IN  [correct |-> acc.correct, incorrect |-> acc.incorrect,
              unanswered |-> acc.unanswered,
              current_streak |-> acc.current_streak,
              best_streak |-> acc.best_streak,
              total_answered |-> total_answered,
              accuracy |-> Accuracy(acc.correct, total_answered)]

(***************************************************************************)
(* calculate_detailed_results                                              *)
(***************************************************************************)
\* a dict with the keys of s added to (or replacing) those of r
Merge(r, s) ==
    [k \in DOMAIN r \cup DOMAIN s |-> IF k \in DOMAIN s THEN s[k] ELSE r[k]]

\* field.replace('_', ' ').title()
FieldTitle(field) ==
    CASE field = "rule" -> "Rule"
      [] field = "source_ip" -> "Source Ip"
      [] field = "dest_ip" -> "Dest Ip"
      [] field = "protocol" -> "Protocol"
      [] field = "port" -> "Port"
      [] OTHER -> "Action"

\* a value as the list the multi-select comparison turns it into:
\* a list stays, a non-empty scalar becomes [val], anything falsy becomes []
AsList(val) ==
    IF val.t = "list" THEN val
    ELSE IF Truthy(val) THEN PyList(<<val.v>>) ELSE PyList(<<>>)

\* a comparison of the two lists as lists: order and repetitions count
MultiSelectEqualAsLists(user_val, correct_val) == user_val.v = correct_val.v

\* set(user_val) == set(correct_val)
MultiSelectEqual(user_val, correct_val) == ToSet(user_val.v) = ToSet(correct_val.v)

\* user_val / correct_val of item idx, before the multi-select coercion:
\* d.get(str(idx), [] if is_multi_select else "")
ItemValue(d, idx, is_multi_select) ==
    Get(d, StrOf(idx), IF is_multi_select THEN PyList(<<>>) ELSE PyStr(""))

\* a comparison that passes every item the user left without a value
ItemCorrectOrBlank(user_val, correct_val, is_multi_select) ==
    \/ ~Truthy(user_val)
    \/ IF is_multi_select
       THEN MultiSelectEqual(AsList(user_val), AsList(correct_val))
       ELSE PyEq(user_val, correct_val)

\* is_correct of one item, from the two values compared
ItemCorrect(user_val, correct_val, is_multi_select) ==
    IF is_multi_select
    THEN MultiSelectEqual(AsList(user_val), AsList(correct_val))
    ELSE PyEq(user_val, correct_val)

\* the entry appended to result['items'] for one item
ItemEntry(idx, item_text, user_val, correct_val, is_multi_select) ==
    [number |-> idx + 1, description |-> item_text,
     user_answer |-> IF is_multi_select THEN AsList(user_val) ELSE user_val,
     correct_answer |-> IF is_multi_select THEN AsList(correct_val) ELSE correct_val,
     is_correct |-> ItemCorrect(user_val, correct_val, is_multi_select),
     is_multi_select |-> is_multi_select]

\* one item of a Classification/Matching question; a falsy user_answer
\* (None, {}) reads as the default
MatchingItem(idx, item_text, user_answer, correct_answers, is_multi_select) ==
    ItemEntry(idx, item_text,
              ItemValue(IF Truthy(user_answer) THEN user_answer.v ELSE <<>>,
                        idx, is_multi_select),
              ItemValue(correct_answers, idx, is_multi_select),
              is_multi_select)

\* the threshold with the boundary excluded
MatchingPassesStrict(correct_items, total) == 2 * correct_items > total

\* correct_items / len(matching_items) >= 0.5, for len(matching_items) > 0
MatchingPasses(correct_items, total) == 2 * correct_items >= total

\* the keys a PBQ branch leaves in result, and what it adds to the counts;
\* total = 0 raises ZeroDivisionError after score and total are stored
Verdict(scored, passes) ==
    IF scored.total = 0
    THEN [keys |-> Merge(scored, [error |-> "division by zero"]),
          verdict |-> "incorrect", is_correct |-> FALSE]
    ELSE IF passes
    THEN [keys |-> scored, verdict |-> "correct", is_correct |-> TRUE]
    ELSE [keys |-> scored, verdict |-> "incorrect", is_correct |-> FALSE]

\* result['items'], result['score'], result['total'] of a matching question
MatchingScored(items) ==
    [items |-> items,
     score |-> Cardinality({n \in DOMAIN items : items[n].is_correct}),
     total |-> Len(items)]

MatchingVerdict(scored) ==
    Verdict(scored, scored.total > 0 /\ MatchingPasses(scored.score, scored.total))

\* the Classification/Matching branch
GradeMatching(question, user_answer, correct_answers) ==
    MatchingVerdict(MatchingScored(
        [n \in 1 .. Len(question.pbq_data.matching_items) |->
            MatchingItem(n - 1, question.pbq_data.matching_items[n], user_answer,
                         correct_answers, question.pbq_data.is_multi_select)]))

\* one field of one row of a Firewall Rules question
FieldEntry(field, user_val, correct_val) ==
    [name |-> FieldTitle(field), user_value |-> user_val,
     correct_value |-> correct_val, is_correct |-> PyEq(user_val, correct_val)]

FirewallField(rule_idx, field, user_answer, correct_answers) ==
    FieldEntry(field,
               Get(IF Truthy(user_answer) THEN user_answer.v ELSE <<>>,
                   FwKey(rule_idx, field), PyStr("")),
               Get(correct_answers, FwKey(rule_idx, field), PyStr("")))

\* row_correct == row_total
RowFullyCorrect(row_correct, row_total) == row_correct = row_total

\* the row_result of one rule, from its six field entries
RowEntry(rule_idx, row_fields) ==
    [rule_number |-> rule_idx + 1, fields |-> row_fields,
     row_score |-> Cardinality({f \in DOMAIN row_fields : row_fields[f].is_correct}),
     row_total |-> Len(fields)]

FirewallRow(rule_idx, user_answer, correct_answers) ==
    RowEntry(rule_idx,
             [f \in DOMAIN fields |->
                 FirewallField(rule_idx, fields[f], user_answer, correct_answers)])

RECURSIVE SumRows(_, _)
SumRows(rows, n) == IF n = 0 THEN 0 ELSE SumRows(rows, n - 1) + rows[n].row_score

\* the threshold with the boundary excluded
FirewallPassesStrict(correct_fields, total_fields) == 2 * correct_fields > total_fields

\* correct_fields / total_fields >= 0.5, for total_fields > 0
FirewallPasses(correct_fields, total_fields) == 2 * correct_fields >= total_fields

\* result['items'], ['score'], ['total'], ['rows_correct'], ['rows_total']
FirewallScored(rows) ==
    [items |-> rows,
     score |-> SumRows(rows, Len(rows)),
     total |-> Len(fields) * Len(rows),
     rows_correct |-> Cardinality({n \in DOMAIN rows :
                          RowFullyCorrect(rows[n].row_score, rows[n].row_total)}),
     rows_total |-> Len(rows)]

FirewallVerdict(scored) ==
    Verdict(scored, scored.total > 0 /\ FirewallPasses(scored.score, scored.total))

\* the Firewall Rules branch
GradeFirewall(question, user_answer, correct_answers) ==
    FirewallVerdict(FirewallScored(
        [n \in 1 .. Len(question.pbq_data.firewall_rules) |->
            FirewallRow(n - 1, user_answer, correct_answers)]))

\* the try block of a PBQ, given what json.loads made of correct_answer
GradeParsed(question, user_answer, parsed) ==
    IF parsed.raised \/ parsed.value.t # "dict"
    THEN [keys |-> [error |-> "Expecting property name enclosed in double quotes"],
          verdict |-> "incorrect", is_correct |-> FALSE]
    ELSE IF PbqType(question) = "Classification/Matching"
    THEN GradeMatching(question, user_answer, parsed.value.v)
    ELSE IF PbqType(question) = "Firewall Rules"
    THEN GradeFirewall(question, user_answer, parsed.value.v)
    ELSE [keys |-> <<>>, verdict |-> "none", is_correct |-> FALSE]

\* a regular question: no branch grades it
GradeRegular == [keys |-> <<>>, verdict |-> "none", is_correct |-> FALSE]

\* a result numbered by the loop index, from 0
QuestionResultFromZero(i, question, graded) ==
    [result |->
        Merge(Merge([question_num |-> i, question_type |-> PbqType(question),
                     instructions |-> question.pbq_data.instructions, items |-> <<>>],
                    graded.keys),
              [is_correct |-> graded.is_correct]),
     verdict |-> graded.verdict]

\* the result appended for question i, and what it adds to the counts
QuestionResult(i, question, graded) ==
    [result |->
        Merge(Merge([question_num |-> i + 1, question_type |-> PbqType(question),
                     instructions |-> question.pbq_data.instructions, items |-> <<>>],
                    graded.keys),
              [is_correct |-> graded.is_correct]),
     verdict |-> graded.verdict]

\* the body of the for loop
GradeQuestion(i, question, user_answer) ==
    QuestionResult(i, question,
        IF question.is_pbq
        THEN GradeParsed(question, user_answer, json_loads(question.correct_answer))
        ELSE GradeRegular)

\* detailed_results, correct_count and incorrect_count after the loop
Tally(graded) ==
    [detailed_results |-> [n \in DOMAIN graded |-> graded[n].result],
     correct_count |-> Cardinality({n \in DOMAIN graded : graded[n].verdict = "correct"}),
     incorrect_count |-> Cardinality({n \in DOMAIN graded : graded[n].verdict = "incorrect"})]

\* what calculate_detailed_results() computes
calculate_detailed_results(questions, answers) ==
    Tally([n \in 1 .. Len(questions) |->
              GradeQuestion(n - 1, questions[n], Get(answers, n - 1, PyNone))])

\* real_time_score after the final pass has updated four of its keys
\* a final score that leaves total_answered as the last recompute stored it
FinalScoreKeepsAnswered(old_score, graded, total_questions) ==
    [old_score EXCEPT !.correct = graded.correct_count,
                      !.incorrect = graded.incorrect_count,
                      !.accuracy = Accuracy(graded.correct_count, total_questions)]

FinalScore(old_score, graded, total_questions) ==
    [old_score EXCEPT !.correct = graded.correct_count,
                      !.incorrect = graded.incorrect_count,
                      !.total_answered = total_questions,
                      !.accuracy = Accuracy(graded.correct_count, total_questions)]

(***************************************************************************)
(* The session state: the keys of st.session_state the practice mode uses. *)
(***************************************************************************)
VARIABLES
    question_bank,            \* the loaded question bank
    current_question_index,   \* the cursor
    user_answers,             \* dict: question index -> answer value
    practice_started,         \* a session is in progress
    show_answers,             \* the summary of a finished session is shown
    selected_questions,       \* the questions of the session
    shuffle_questions,        \* checkbox "Shuffle Questions"
    shuffle_options,          \* checkbox "Shuffle Options (per PBQ)"
    real_time_score,          \* the score snapshot
    detailed_results,         \* the report of the final pass
    shuffled,                 \* the keys "shuffled_..." : cached option orders
    question_count_slider,    \* the value of the slider widget
    sessions                  \* how many sessions were started

vars ==
    <<question_bank, current_question_index, user_answers, practice_started,
      show_answers, selected_questions, shuffle_questions, shuffle_options,
      real_time_score, detailed_results, shuffled, question_count_slider, sessions>>

Min(a, b) == IF a <= b THEN a ELSE b

\* value=min(10, total_questions): the slider's value when it is created
DefaultCount(bank) == Min(10, Len(bank))

\* render_practice_settings: the selected_questions it assigns
render_practice_settings(bank, count) ==
    IF Len(bank) = 0 THEN <<>>
    ELSE IF Len(bank) = 1 THEN bank
    ELSE Take(bank, count)

InitialScore ==
    [correct |-> 0, incorrect |-> 0, unanswered |-> 0, current_streak |-> 0,
     best_streak |-> 0, total_answered |-> 0, accuracy |-> [num |-> 0, den |-> 1]]

\* initialize_session_state, then the first run of the script, which shows
\* the settings of a non-empty bank
Init ==
    /\ question_bank \in Banks
    /\ current_question_index = 0
    /\ user_answers = <<>>
    /\ practice_started = FALSE
    /\ show_answers = FALSE
    /\ selected_questions =
          render_practice_settings(question_bank, DefaultCount(question_bank))
    /\ shuffle_questions = FALSE
    /\ shuffle_options = FALSE
    /\ real_time_score = InitialScore
    /\ detailed_results = <<>>
    /\ shuffled = <<>>
    /\ question_count_slider = DefaultCount(question_bank)
    /\ sessions = 0

(***************************************************************************)
(* render_question_navigation: the answered-predicate                      *)
(***************************************************************************)
\* an answered-predicate that looks at the first item, or at the first field
\* of each rule, only
all_answered_first_only(question, user_answer) ==
    IF question.is_pbq
    THEN IF PbqType(question) = "Classification/Matching"
         THEN \A i \in 0 .. Min(1, Len(question.pbq_data.matching_items)) - 1 :
                 Truthy(Get(user_answer.v, StrOf(i), PyNone))
         ELSE IF PbqType(question) = "Firewall Rules"
         THEN \A i \in 0 .. Len(question.pbq_data.firewall_rules) - 1 :
                 Truthy(Get(user_answer.v, FwKey(i, fields[1]), PyNone))
         ELSE FALSE
    ELSE user_answer.t # "None" /\ ~PyEq(user_answer, PyStr(""))

\* an answered-predicate whose loop over the items of a matching question
\* runs one index too far
all_answered_one_more(question, user_answer) ==
    IF question.is_pbq
    THEN IF PbqType(question) = "Classification/Matching"
         THEN \A i \in 0 .. Len(question.pbq_data.matching_items) :
                 Truthy(Get(user_answer.v, StrOf(i), PyNone))
         ELSE IF PbqType(question) = "Firewall Rules"
         THEN \A i \in 0 .. Len(question.pbq_data.firewall_rules) - 1 :
                 \A f \in DOMAIN fields :
                     Truthy(Get(user_answer.v, FwKey(i, fields[f]), PyNone))
         ELSE FALSE
    ELSE user_answer.t # "None" /\ ~PyEq(user_answer, PyStr(""))

\* all_answered, for user_answer = user_answers.get(current_index, {})
all_answered(question, user_answer) ==
    IF question.is_pbq
    THEN IF PbqType(question) = "Classification/Matching"
         THEN \A i \in 0 .. Len(question.pbq_data.matching_items) - 1 :
                 Truthy(Get(user_answer.v, StrOf(i), PyNone))
         ELSE IF PbqType(question) = "Firewall Rules"
         THEN \A i \in 0 .. Len(question.pbq_data.firewall_rules) - 1 :
                 \A f \in DOMAIN fields :
                     Truthy(Get(user_answer.v, FwKey(i, fields[f]), PyNone))
         ELSE FALSE
    ELSE user_answer.t # "None" /\ ~PyEq(user_answer, PyStr(""))

(***************************************************************************)
(* One run of display_regular_question / display_matching_pbq /            *)
(* display_firewall_pbq.  click is the widget the user has just changed    *)
(* and its new value, or NoClick in a run that only redraws the page.      *)
(***************************************************************************)
NoClick == [item |-> -1, field |-> "", val |-> ""]

\* display_regular_question: the value the radio returns
RadioValue(question, user_answer, click) ==
    IF click.item = 0 THEN PyStr(click.val)
    ELSE IF user_answer.t = "str" /\ user_answer.v \in ToSet(question.options)
    THEN user_answer
    ELSE PyNone

\* the key of the cached option order of a matching question
MatchingShuffleKey(current_index) == "shuffled_options_" \o StrOf(current_index)

\* the key of the cached option order of one field of one firewall rule
FirewallShuffleKey(current_index, rule_idx, field) ==
    "shuffled_" \o StrOf(current_index) \o "_" \o StrOf(rule_idx) \o "_" \o field \o "_options"

\* a page that draws a new order in every run
MatchingCachesRedrawn(question, current_index, cache, shuffle) ==
    IF shuffle
    THEN {Merge(cache, [k \in {MatchingShuffleKey(current_index)} |-> p]) :
            p \in Perms(question.pbq_data.all_options)}
    ELSE {cache}

\* display_matching_pbq: the caches the run may leave (random.sample)
MatchingCaches(question, current_index, cache, shuffle) ==
    IF shuffle /\ MatchingShuffleKey(current_index) \notin DOMAIN cache
    THEN {Merge(cache, [k \in {MatchingShuffleKey(current_index)} |-> p]) :
            p \in Perms(question.pbq_data.all_options)}
    ELSE {cache}

\* display_matching_pbq: display_options
MatchingDisplayOptions(question, current_index, cache, shuffle) ==
    IF shuffle THEN cache[MatchingShuffleKey(current_index)]
    ELSE question.pbq_data.all_options

\* the value of the single-select box of item i
SelectboxValue(current_answer, display_options, clicked, val) ==
    IF clicked THEN PyStr(val)
    ELSE IF Truthy(current_answer) /\ current_answer.t = "str"
            /\ current_answer.v \in ToSet(display_options)
    THEN current_answer
    ELSE PyStr("")

\* the list selected_options of item i: the checked options in display order
SelectedOptions(current_answers, display_options, clicked, val) ==
    LET checked(opt) ==
            IF clicked /\ opt = val
            THEN opt \notin ToSet(current_answers.v)
            ELSE opt \in ToSet(current_answers.v)
    IN  PyList(SelectSeq(display_options, checked))

\* the value stored for item i after the run; PyNone stands for "no key"
MatchingItemValue(question, user_answer, display_options, click, i) ==
    LET stored == Get(user_answer.v, StrOf(i), PyNone)
        clicked == click.item = i
    IN  IF question.pbq_data.is_multi_select
        THEN LET current_answers == AsList(Get(user_answer.v, StrOf(i), PyList(<<>>)))
                 selected_options ==
                     SelectedOptions(current_answers, display_options, clicked, click.val)
             IN  IF ToSet(selected_options.v) # ToSet(current_answers.v)
                 THEN selected_options ELSE stored
        ELSE LET current_answer == Get(user_answer.v, StrOf(i), PyStr(""))
                 selected_answer ==
                     SelectboxValue(current_answer, display_options, clicked, click.val)
             IN  IF ~PyEq(selected_answer, current_answer)
                 THEN selected_answer ELSE stored

\* a run that stores a new mapping holding the changed item alone
MatchingRunReplaces(question, user_answer, display_options, click) ==
    IF click.item \in 0 .. Len(question.pbq_data.matching_items) - 1
    THEN LET value == MatchingItemValue(question, user_answer, display_options,
                                        click, click.item)
         IN  IF value.t = "None" THEN user_answer
             ELSE PyDict([k \in {StrOf(click.item)} |-> value])
    ELSE user_answer

\* display_matching_pbq: user_answers[current_index] after the run
MatchingRun(question, user_answer, display_options, click) ==
    LET n == Len(question.pbq_data.matching_items)
        value(i) == MatchingItemValue(question, user_answer, display_options, click, i)
        keys == DOMAIN user_answer.v
                  \cup {StrOf(i) : i \in {j \in 0 .. n - 1 : value(j).t # "None"}}
    IN  PyDict([k \in keys |->
                  IF \E i \in 0 .. n - 1 : StrOf(i) = k
                  THEN value(CHOOSE i \in 0 .. n - 1 : StrOf(i) = k)
                  ELSE user_answer.v[k]])

\* the six option-list keys of a firewall rule, in the order of the loop
option_fields == [f \in DOMAIN fields |-> fields[f] \o "_options"]

\* display_firewall_pbq: the caches after the shuffle keys of the first n
\* fields of rule rule_idx have been created (random.sample for each new key)
RECURSIVE FirewallFieldCaches(_, _, _, _, _)
FirewallFieldCaches(rule, current_index, rule_idx, caches, n) ==
    IF n = 0 THEN caches
    ELSE LET before == FirewallFieldCaches(rule, current_index, rule_idx, caches, n - 1)
             shuffle_key == FirewallShuffleKey(current_index, rule_idx, fields[n])
         IN  UNION {IF shuffle_key \in DOMAIN c
                    THEN {c}
                    ELSE {Merge(c, [k \in {shuffle_key} |-> p]) :
                            p \in Perms(rule[option_fields[n]])}
                    : c \in before}

RECURSIVE FirewallRuleCaches(_, _, _, _)
FirewallRuleCaches(rules, current_index, caches, n) ==
    IF n = 0 THEN caches
    ELSE FirewallFieldCaches(rules[n], current_index, n - 1,
            FirewallRuleCaches(rules, current_index, caches, n - 1), Len(fields))

\* display_firewall_pbq: the caches the run may leave
FirewallCaches(question, current_index, cache, shuffle) ==
    IF shuffle
    THEN FirewallRuleCaches(question.pbq_data.firewall_rules, current_index,
                            {cache}, Len(question.pbq_data.firewall_rules))
    ELSE {cache}

\* shuffled_rule[field]: the option list shown for one field of one rule
FirewallDisplayOptions(question, current_index, cache, shuffle, rule_idx, f) ==
    IF shuffle
    THEN cache[FirewallShuffleKey(current_index, rule_idx, fields[f])]
    ELSE question.pbq_data.firewall_rules[rule_idx + 1][option_fields[f]]

\* the value of the select box of one field: options = [""] + the list shown
FirewallBoxValue(current_val, shown, clicked, val) ==
    IF clicked THEN PyStr(val)
    ELSE IF current_val.t = "str" /\ current_val.v \in ({""} \cup ToSet(shown))
    THEN current_val
    ELSE PyStr("")

\* display_firewall_pbq: user_answers[current_index] after the run
FirewallRun(question, user_answer, current_index, cache, shuffle, click) ==
    LET n == Len(question.pbq_data.firewall_rules)
        cells == {<<i, f>> : i \in 0 .. n - 1, f \in DOMAIN fields}
        value(c) ==
            FirewallBoxValue(
                Get(user_answer.v, FwKey(c[1], fields[c[2]]), PyStr("")),
                FirewallDisplayOptions(question, current_index, cache, shuffle, c[1], c[2]),
                click.item = c[1] /\ click.field = fields[c[2]],
                click.val)
        keys == DOMAIN user_answer.v \cup {FwKey(c[1], fields[c[2]]) : c \in cells}
    IN  PyDict([k \in keys |->
                  IF \E c \in cells : FwKey(c[1], fields[c[2]]) = k
                  THEN value(CHOOSE c \in cells : FwKey(c[1], fields[c[2]]) = k)
                  ELSE user_answer.v[k]])

(***************************************************************************)
(* display_current_question: a run of the script while a session is in     *)
(* progress, up to the run that ends without st.rerun().  The result is    *)
(* the set of outcomes: random.sample picks the cached option orders.      *)
(***************************************************************************)
\* a run that stores and scores every radio event, changed or not, and adds
\* the streak to the one it had
DisplayRegularRecounting(question, current_index, answers, score, cache, questions, click) ==
    LET user_answer == Get(answers, current_index, PyNone)
        answer == RadioValue(question, user_answer, click)
        changed == Merge(answers, [k \in {current_index} |-> answer])
        recomputed == calculate_real_time_score(questions, changed, score)
    IN  IF click.item = 0 \/ ~PyEq(answer, user_answer)
        THEN {[user_answers |-> changed,
               real_time_score |->
                   [recomputed EXCEPT !.current_streak = @ + score.current_streak],
               shuffled |-> cache]}
        ELSE {[user_answers |-> answers, real_time_score |-> score, shuffled |-> cache]}

\* a run showing a regular question
DisplayRegular(question, current_index, answers, score, cache, questions, click) ==
    LET user_answer == Get(answers, current_index, PyNone)
        answer == RadioValue(question, user_answer, click)
        changed == Merge(answers, [k \in {current_index} |-> answer])
    IN  IF ~PyEq(answer, user_answer)
        THEN {[user_answers |-> changed,
               real_time_score |-> calculate_real_time_score(questions, changed, score),
               shuffled |-> cache]}
        ELSE {[user_answers |-> answers, real_time_score |-> score, shuffled |-> cache]}

\* a run showing a Classification/Matching question
DisplayMatching(question, current_index, answers, score, cache, shuffle, click) ==
    LET user_answer == Get(answers, current_index, EmptyDict)
    IN  {[user_answers |->
             Merge(answers, [k \in {current_index} |->
                 MatchingRun(question, user_answer,
                     MatchingDisplayOptions(question, current_index, c, shuffle), click)]),
          real_time_score |-> score,
          shuffled |-> c] : c \in MatchingCaches(question, current_index, cache, shuffle)}

\* a run showing a Firewall Rules question
DisplayFirewall(question, current_index, answers, score, cache, shuffle, click) ==
    LET user_answer == Get(answers, current_index, EmptyDict)
    IN  {[user_answers |->
             Merge(answers, [k \in {current_index} |->
                 FirewallRun(question, user_answer, current_index, c, shuffle, click)]),
          real_time_score |-> score,
          shuffled |-> c] : c \in FirewallCaches(question, current_index, cache, shuffle)}

\* display_current_question with the widget event click (or NoClick)
display_current_question(questions, current_index, answers, score, cache, shuffle, click) ==
    IF current_index < Len(questions)
    THEN LET question == questions[current_index + 1]
         IN  IF question.is_pbq
             THEN IF PbqType(question) = "Classification/Matching"
                  THEN DisplayMatching(question, current_index, answers, score,
                                       cache, shuffle, click)
                  ELSE IF PbqType(question) = "Firewall Rules"
                  THEN DisplayFirewall(question, current_index, answers, score,
                                       cache, shuffle, click)
                  ELSE {[user_answers |-> answers, real_time_score |-> score,
                         shuffled |-> cache]}
             ELSE DisplayRegular(question, current_index, answers, score, cache,
                                 questions, click)
    ELSE {[user_answers |-> answers, real_time_score |-> score, shuffled |-> cache]}

(***************************************************************************)
(* The events.                                                             *)
(***************************************************************************)
current_question == selected_questions[current_question_index + 1]

\* all_answered as render_question_navigation computes it for the page shown
AllAnswered ==
    all_answered(current_question, Get(user_answers, current_question_index, EmptyDict))

\* a run of the script that shows the current question of the session whose
\* questions, cursor and answers are given
ShowQuestion(questions, index, answers, click) ==
    \E out \in display_current_question(questions, index, answers, real_time_score,
                                        shuffled, shuffle_options, click) :
        /\ user_answers' = out.user_answers
        /\ real_time_score' = out.real_time_score
        /\ shuffled' = out.shuffled

\* the slider "Number of Questions" is moved to count
SetQuestionCount(count) ==
    /\ ~practice_started
    /\ Len(question_bank) >= 2
    /\ count \in 1 .. Len(question_bank)
    /\ count # question_count_slider
    /\ question_count_slider' = count
    /\ selected_questions' = render_practice_settings(question_bank, count)
    /\ UNCHANGED <<question_bank, current_question_index, user_answers,
                   practice_started, show_answers, shuffle_questions, shuffle_options,
                   real_time_score, detailed_results, shuffled, sessions>>

\* the checkbox "Shuffle Questions" is toggled
ToggleShuffleQuestions ==
    /\ ~practice_started
    /\ shuffle_questions' = ~shuffle_questions
    /\ selected_questions' =
          render_practice_settings(question_bank, question_count_slider)
    /\ UNCHANGED <<question_bank, current_question_index, user_answers,
                   practice_started, show_answers, shuffle_options, real_time_score,
                   detailed_results, shuffled, question_count_slider, sessions>>

\* the checkbox "Shuffle Options (per PBQ)" is toggled
ToggleShuffleOptions ==
    /\ ~practice_started
    /\ shuffle_options' = ~shuffle_options
    /\ selected_questions' =
          render_practice_settings(question_bank, question_count_slider)
    /\ UNCHANGED <<question_bank, current_question_index, user_answers,
                   practice_started, show_answers, shuffle_questions, real_time_score,
                   detailed_results, shuffled, question_count_slider, sessions>>

\* a start without the fallback of start_practice_session, made before any
\* selection was stored
StartOrdersNothingStored == {<<>>}

\* start_practice_session: the questions the session may run on
StartOrders ==
    LET shown == render_practice_settings(question_bank, question_count_slider)
        chosen == IF shown = <<>> /\ Len(question_bank) > 0
                  THEN Take(question_bank, Min(10, Len(question_bank)))
                  ELSE shown
    IN  IF shuffle_questions THEN Perms(chosen) ELSE {chosen}

\* a start that does not drop the answers stored beyond the new session's indices
StartPracticeKeepsAnswers ==
    /\ ~practice_started
    /\ sessions < MaxSessions
    /\ \E order \in StartOrders :
          /\ selected_questions' = order
          /\ question_bank' = IF Len(question_bank) = 1 THEN order ELSE question_bank
          /\ ShowQuestion(order, 0,
                          [i \in (0 .. Len(order) - 1) \cup DOMAIN user_answers |->
                              IF i < Len(order) THEN EmptyDict ELSE user_answers[i]],
                          NoClick)
    /\ practice_started' = TRUE
    /\ current_question_index' = 0
    /\ show_answers' = FALSE
    /\ detailed_results' = <<>>
    /\ question_count_slider' = DefaultCount(question_bank)
    /\ sessions' = sessions + 1
    /\ UNCHANGED <<shuffle_questions, shuffle_options>>

\* a start whose selection of the whole bank is the bank list itself, whatever
\* the size of the bank, so that the shuffle reorders the bank
StartPracticeShufflesBank ==
    /\ ~practice_started
    /\ sessions < MaxSessions
    /\ \E order \in StartOrders :
          /\ selected_questions' = order
          /\ question_bank' = IF Len(order) = Len(question_bank)
                              THEN order ELSE question_bank
          /\ ShowQuestion(order, 0, [i \in 0 .. Len(order) - 1 |-> EmptyDict], NoClick)
    /\ practice_started' = TRUE
    /\ current_question_index' = 0
    /\ show_answers' = FALSE
    /\ detailed_results' = <<>>
    /\ question_count_slider' = DefaultCount(question_bank)
    /\ sessions' = sessions + 1
    /\ UNCHANGED <<shuffle_questions, shuffle_options>>

\* the button "Start Practice": start_practice_session, then the first page.
\* The slider is not drawn during a session, so its widget state is dropped.
\* With a bank of one question selected_questions is the bank list itself.
StartPractice ==
    /\ ~practice_started
    /\ sessions < MaxSessions
    /\ \E order \in StartOrders :
          /\ selected_questions' = order
          /\ question_bank' = IF Len(question_bank) = 1 THEN order ELSE question_bank
          /\ ShowQuestion(order, 0, [i \in 0 .. Len(order) - 1 |-> EmptyDict], NoClick)
    /\ practice_started' = TRUE
    /\ current_question_index' = 0
    /\ show_answers' = FALSE
    /\ detailed_results' = <<>>
    /\ question_count_slider' = DefaultCount(question_bank)
    /\ sessions' = sessions + 1
    /\ UNCHANGED <<shuffle_questions, shuffle_options>>

\* a radio that is drawn, and can be clicked, whether a session runs or not
AnswerRegularAnyPhase(opt) ==
    /\ current_question_index < Len(selected_questions)
    /\ ~current_question.is_pbq
    /\ opt \in ToSet(current_question.options)
    /\ ShowQuestion(selected_questions, current_question_index, user_answers,
                    [item |-> 0, field |-> "", val |-> opt])
    /\ UNCHANGED <<question_bank, current_question_index, practice_started,
                   show_answers, selected_questions, shuffle_questions,
                   shuffle_options, detailed_results, question_count_slider, sessions>>

\* an option of the radio of a regular question is chosen
AnswerRegular(opt) ==
    /\ practice_started
    /\ ~current_question.is_pbq
    /\ opt \in ToSet(current_question.options)
    /\ ShowQuestion(selected_questions, current_question_index, user_answers,
                    [item |-> 0, field |-> "", val |-> opt])
    /\ UNCHANGED <<question_bank, current_question_index, practice_started,
                   show_answers, selected_questions, shuffle_questions,
                   shuffle_options, detailed_results, question_count_slider, sessions>>

\* the select box of item i of a matching question is set to val, or the
\* checkbox val of item i of a multi-select question is toggled
AnswerMatching(i, val) ==
    /\ practice_started
    /\ current_question.is_pbq
    /\ PbqType(current_question) = "Classification/Matching"
    /\ i \in 0 .. Len(current_question.pbq_data.matching_items) - 1
    /\ LET shown == MatchingDisplayOptions(current_question, current_question_index,
                                           shuffled, shuffle_options)
       IN  val \in (IF current_question.pbq_data.is_multi_select
                    THEN ToSet(shown) ELSE {""} \cup ToSet(shown))
    /\ ShowQuestion(selected_questions, current_question_index, user_answers,
                    [item |-> i, field |-> "", val |-> val])
    /\ UNCHANGED <<question_bank, current_question_index, practice_started,
                   show_answers, selected_questions, shuffle_questions,
                   shuffle_options, detailed_results, question_count_slider, sessions>>

\* the select box of field fields[f] of rule i of a firewall question is set to val
AnswerFirewall(i, f, val) ==
    /\ practice_started
    /\ current_question.is_pbq
    /\ PbqType(current_question) = "Firewall Rules"
    /\ i \in 0 .. Len(current_question.pbq_data.firewall_rules) - 1
    /\ f \in DOMAIN fields
    /\ val \in {""} \cup ToSet(FirewallDisplayOptions(current_question,
                    current_question_index, shuffled, shuffle_options, i, f))
    /\ ShowQuestion(selected_questions, current_question_index, user_answers,
                    [item |-> i, field |-> fields[f], val |-> val])
    /\ UNCHANGED <<question_bank, current_question_index, practice_started,
                   show_answers, selected_questions, shuffle_questions,
                   shuffle_options, detailed_results, question_count_slider, sessions>>

\* "Previous" in a script whose settings are drawn during a session too
PreviousRedrawsSettings ==
    /\ practice_started
    /\ current_question_index > 0
    /\ current_question_index' = current_question_index - 1
    /\ selected_questions' =
          render_practice_settings(question_bank, question_count_slider)
    /\ ShowQuestion(selected_questions, current_question_index - 1, user_answers, NoClick)
    /\ UNCHANGED <<question_bank, practice_started, show_answers,
                   shuffle_questions, shuffle_options, detailed_results,
                   question_count_slider, sessions>>

\* "Previous" behind the all_answered check of "Next"
PreviousGated ==
    /\ practice_started
    /\ current_question_index > 0
    /\ AllAnswered
    /\ current_question_index' = current_question_index - 1
    /\ ShowQuestion(selected_questions, current_question_index - 1, user_answers, NoClick)
    /\ UNCHANGED <<question_bank, practice_started, show_answers, selected_questions,
                   shuffle_questions, shuffle_options, detailed_results,
                   question_count_slider, sessions>>

\* the button "Previous"
Previous ==
    /\ practice_started
    /\ current_question_index > 0
    /\ current_question_index' = current_question_index - 1
    /\ ShowQuestion(selected_questions, current_question_index - 1, user_answers, NoClick)
    /\ UNCHANGED <<question_bank, practice_started, show_answers, selected_questions,
                   shuffle_questions, shuffle_options, detailed_results,
                   question_count_slider, sessions>>

\* "Next" without the all_answered check
NextUngated ==
    /\ practice_started
    /\ current_question_index < Len(selected_questions) - 1
    /\ current_question_index' = current_question_index + 1
    /\ ShowQuestion(selected_questions, current_question_index + 1, user_answers, NoClick)
    /\ UNCHANGED <<question_bank, practice_started, show_answers,
                   selected_questions, shuffle_questions, shuffle_options,
                   detailed_results, question_count_slider, sessions>>

\* "Next" shown on the last question too
NextPastEnd ==
    /\ practice_started
    /\ IF AllAnswered
       THEN /\ current_question_index' = current_question_index + 1
            /\ ShowQuestion(selected_questions, current_question_index + 1,
                            user_answers, NoClick)
            /\ UNCHANGED <<question_bank, practice_started, show_answers,
                           selected_questions, shuffle_questions, shuffle_options,
                           detailed_results, question_count_slider, sessions>>
       ELSE UNCHANGED vars

\* the button "Next": disabled, and without effect, unless all_answered
Next_ ==
    /\ practice_started
    /\ current_question_index < Len(selected_questions) - 1
    /\ IF AllAnswered
       THEN /\ current_question_index' = current_question_index + 1
            /\ ShowQuestion(selected_questions, current_question_index + 1,
                            user_answers, NoClick)
            /\ UNCHANGED <<question_bank, practice_started, show_answers,
                           selected_questions, shuffle_questions, shuffle_options,
                           detailed_results, question_count_slider, sessions>>
       ELSE UNCHANGED vars

\* end_practice_session, then the page of a finished session, whose
\* settings assign selected_questions again
end_practice_session ==
    /\ practice_started' = FALSE
    /\ show_answers' = TRUE
    /\ \E graded \in {calculate_detailed_results(selected_questions, user_answers)} :
          /\ detailed_results' = graded.detailed_results
          /\ real_time_score' =
                FinalScore(real_time_score, graded, Len(selected_questions))
    /\ selected_questions' =
          render_practice_settings(question_bank, question_count_slider)
    /\ UNCHANGED <<question_bank, current_question_index, user_answers,
                   shuffle_questions, shuffle_options, shuffled,
                   question_count_slider, sessions>>

\* "Submit" without the all_answered check
SubmitUngated ==
    /\ practice_started
    /\ ~(current_question_index < Len(selected_questions) - 1)
    /\ end_practice_session

\* the button "Submit" of the last question: disabled, and without effect,
\* unless all_answered
Submit ==
    /\ practice_started
    /\ ~(current_question_index < Len(selected_questions) - 1)
    /\ IF AllAnswered THEN end_practice_session ELSE UNCHANGED vars

\* the button "End Practice", shown on every page of a session
EndPractice ==
    /\ practice_started
    /\ end_practice_session

\* a "Start New Practice" that leaves the answers of the finished session
StartNewPracticeKeepsAnswers ==
    /\ ~practice_started
    /\ show_answers
    /\ practice_started' = FALSE
    /\ show_answers' = FALSE
    /\ current_question_index' = 0
    /\ detailed_results' = <<>>
    /\ selected_questions' =
          render_practice_settings(question_bank, question_count_slider)
    /\ UNCHANGED <<question_bank, user_answers, shuffle_questions, shuffle_options,
                   real_time_score, shuffled, question_count_slider, sessions>>

\* the button "Start New Practice" under the summary
StartNewPractice ==
    /\ ~practice_started
    /\ show_answers
    /\ practice_started' = FALSE
    /\ show_answers' = FALSE
    /\ user_answers' = <<>>
    /\ current_question_index' = 0
    /\ detailed_results' = <<>>
    /\ selected_questions' =
          render_practice_settings(question_bank, question_count_slider)
    /\ UNCHANGED <<question_bank, shuffle_questions, shuffle_options, real_time_score,
                   shuffled, question_count_slider, sessions>>

Next ==
    \/ \E count \in 1 .. 10 : SetQuestionCount(count)
    \/ ToggleShuffleQuestions
    \/ ToggleShuffleOptions
    \/ StartPractice
    \/ \E opt \in {"A", "B"} : AnswerRegular(opt)
    \/ \E i \in 0 .. 1, val \in {"", "X", "P", "Q"} : AnswerMatching(i, val)
    \/ \E i \in 0 .. 0, f \in 1 .. 6, val \in {"", "1", "10.0.0.1", "10.0.0.2", "TCP", "443", "ALLOW"} :
          AnswerFirewall(i, f, val)
    \/ Previous
    \/ Next_
    \/ Submit
    \/ EndPractice
    \/ StartNewPractice

Spec == Init /\ [][Next]_vars

(***************************************************************************)
(* The phases of the session state machine.                                *)
(***************************************************************************)
Phase ==
    IF practice_started THEN "InProgress"
    ELSE IF show_answers THEN "Completed"
    ELSE "Configuring"

LastIndex == Len(selected_questions) - 1

\* a step that ends the session in progress
Finishes == practice_started /\ ~practice_started'

\* the indices of the session's questions
Indices == 0 .. Len(selected_questions) - 1

(***************************************************************************)
(* C1: advance is a no-op while the answered-predicate of the current      *)
(* question is false: the cursor of a session in progress increases only   *)
(* from a state in which the current question is answered, and a press of  *)
(* Next in any other state leaves cursor, questions and answers unchanged. *)
(***************************************************************************)
C1_AdvanceGated ==
    [][/\ (practice_started /\ practice_started'
             /\ current_question_index' > current_question_index) => AllAnswered
       /\ (practice_started /\ ~AllAnswered /\ Next_) =>
             UNCHANGED <<current_question_index, selected_questions, user_answers>>]_vars

\* a session that has advanced once and is now held at an unanswered
\* question that is not the last
C1_Witness ==
    /\ practice_started
    /\ current_question_index = 1
    /\ Len(selected_questions) = 3
    /\ ~AllAnswered

(***************************************************************************)
(* C2, as stated: no step to Completed is taken with the cursor on the     *)
(* last question while its answered-predicate is false.                    *)
(***************************************************************************)
C2_FinishGatedOnLast ==
    [][Finishes => ~(current_question_index = LastIndex /\ ~AllAnswered)]_vars

(***************************************************************************)
(* C2, amended: a session in progress ends only by end_practice_session;   *)
(* the Submit button calls it only with the cursor on the last question    *)
(* and that question answered, the End Practice button calls it at any     *)
(* cursor and whatever the answered-predicate is.                          *)
(***************************************************************************)
C2_FinishOnlyByEndSession ==
    [][/\ Finishes => (EndPractice /\ Phase' = "Completed")
       /\ (Finishes /\ Submit) => (current_question_index = LastIndex /\ AllAnswered)
       /\ (practice_started /\ ~AllAnswered /\ Submit) => UNCHANGED vars]_vars

\* a session ended by End Practice with its current question unanswered
C2_Witness ==
    /\ Phase = "Completed"
    /\ current_question_index \in DOMAIN user_answers
    /\ user_answers[current_question_index].t = "None"

(***************************************************************************)
(* C3: the phase changes only along Configuring -> InProgress,             *)
(* InProgress -> Completed and Completed -> Configuring.                   *)
(***************************************************************************)
C3_PhaseOrder ==
    [][Phase' # Phase =>
          <<Phase, Phase'>> \in {<<"Configuring", "InProgress">>,
                                 <<"InProgress", "Completed">>,
                                 <<"Completed", "Configuring">>}]_vars

(***************************************************************************)
(* C4: while a session is in progress the cursor is an index of            *)
(* selected_questions.                                                     *)
(***************************************************************************)
C4_CursorInRange ==
    practice_started =>
        (0 <= current_question_index /\ current_question_index <= LastIndex)

\* a session that went to its last question and came back
C4_Witness ==
    /\ practice_started
    /\ Len(selected_questions) = 3
    /\ current_question_index = 0
    /\ \A i \in Indices : user_answers[i].t = "str"

(***************************************************************************)
(* C5: no step of a session in progress changes selected_questions.        *)
(***************************************************************************)
C5_SelectedQuestionsFixed ==
    [][(practice_started /\ practice_started') =>
          selected_questions' = selected_questions]_vars

\* a shuffled session of fewer questions than the bank has, after an answer
\* and a step back
C5_Witness ==
    /\ practice_started
    /\ Len(selected_questions) = 2
    /\ selected_questions # Take(question_bank, 2)
    /\ current_question_index = 0
    /\ \A i \in Indices : user_answers[i].t # "None" /\ user_answers[i] # EmptyDict

(***************************************************************************)
(* What the user submitted and what the bank holds, read off the state     *)
(* without the grading functions.                                          *)
(***************************************************************************)
\* the decoded mapping of a PBQ whose correct_answer is well-formed
CorrectOf(question) == question.correct_answer.val.v

WellFormed(question) == question.is_pbq /\ question.correct_answer.ok

\* the string under key of a mapping, "" when the key is absent
StringAt(d, key) == IF key \in DOMAIN d THEN d[key].v ELSE ""

\* the strings a value stands for as a set: a list's elements, a non-empty
\* scalar alone, nothing for an empty or absent value
SetOf(val) ==
    IF val.t = "list" THEN ToSet(val.v)
    ELSE IF val.t = "str" /\ val.v # "" THEN {val.v}
    ELSE {}

SetAt(d, key) == IF key \in DOMAIN d THEN SetOf(d[key]) ELSE {}

\* the mapping the user submitted for a PBQ
Submitted(i) == IF user_answers[i].t = "dict" THEN user_answers[i].v ELSE <<>>

IsMatching(question, multi) ==
    /\ WellFormed(question)
    /\ PbqType(question) = "Classification/Matching"
    /\ question.pbq_data.is_multi_select = multi

IsFirewall(question) ==
    WellFormed(question) /\ PbqType(question) = "Firewall Rules"

\* no option of a regular question has been chosen
NotChosen(answer) == answer.t # "str"

(***************************************************************************)
(* C6: a regular question for which no option has been chosen is counted   *)
(* as unanswered, and not as incorrect, by every real-time recompute.      *)
(***************************************************************************)
C6_UnansweredRegularCounted ==
    [][(practice_started' /\ real_time_score' # real_time_score) =>
          /\ real_time_score'.unanswered >=
                Cardinality({i \in DOMAIN user_answers' :
                    ~selected_questions'[i + 1].is_pbq /\ NotChosen(user_answers'[i])})
          /\ real_time_score'.incorrect <=
                Cardinality({i \in DOMAIN user_answers' :
                    selected_questions'[i + 1].is_pbq \/ ~NotChosen(user_answers'[i])})]_vars

(***************************************************************************)
(* C7: after finish, a regular question whose submitted answer equals its  *)
(* correct_answer is counted in the final correct tally and its detailed   *)
(* result has is_correct = TRUE.                                           *)
(***************************************************************************)
C7_RegularGradedInFinalPass ==
    [][Finishes =>
          \A i \in Indices :
              (/\ ~selected_questions[i + 1].is_pbq
               /\ PyEq(user_answers[i], selected_questions[i + 1].correct_answer)) =>
                  /\ detailed_results'[i + 1].is_correct
                  /\ real_time_score'.correct >= 1]_vars

(***************************************************************************)
(* C8: in the final pass of a single-select Classification/Matching        *)
(* question, score is the number of items whose submitted string equals    *)
(* the correct one (absent = ""), total is the number of items, and        *)
(* is_correct holds iff score / total >= 0.5 (which no question without    *)
(* items satisfies).                                                       *)
(***************************************************************************)
C8_SingleSelectScore ==
    [][Finishes =>
          \A i \in Indices :
              IsMatching(selected_questions[i + 1], FALSE) =>
                  LET question == selected_questions[i + 1]
                      n == Len(question.pbq_data.matching_items)
                      right == {idx \in 0 .. n - 1 :
                                  StringAt(Submitted(i), StrOf(idx))
                                    = StringAt(CorrectOf(question), StrOf(idx))}
                      result == detailed_results'[i + 1]
                  IN  /\ result.score = Cardinality(right)
                      /\ result.total = n
                      /\ result.is_correct <=> (n > 0 /\ 2 * Cardinality(right) >= n)]_vars

\* a finished session with a single-select question of two items, one of
\* them right: exactly half, and the question passes
C8_Witness ==
    /\ Phase = "Completed"
    /\ \E n \in DOMAIN detailed_results :
          /\ detailed_results[n].question_type = "Classification/Matching"
          /\ Len(detailed_results[n].items) = 2
          /\ ~detailed_results[n].items[1].is_multi_select
          /\ detailed_results[n].score = 1
          /\ detailed_results[n].total = 2
          /\ detailed_results[n].is_correct

(***************************************************************************)
(* C9: in the final pass of a Firewall Rules question, score is the number *)
(* of (row, field) pairs whose submitted string equals the correct value   *)
(* keyed "{row}_{field}", total is 6 x the number of rows, rows_correct is *)
(* the number of rows with all six fields right, and is_correct holds iff  *)
(* score / total >= 0.5.                                                   *)
(***************************************************************************)
C9_FirewallScore ==
    [][Finishes =>
          \A i \in Indices :
              IsFirewall(selected_questions[i + 1]) =>
                  LET question == selected_questions[i + 1]
                      rows == 0 .. Len(question.pbq_data.firewall_rules) - 1
                      right == {c \in rows \X DOMAIN fields :
                                  StringAt(Submitted(i), FwKey(c[1], fields[c[2]]))
                                    = StringAt(CorrectOf(question), FwKey(c[1], fields[c[2]]))}
                      result == detailed_results'[i + 1]
                  IN  /\ result.score = Cardinality(right)
                      /\ result.total = 6 * Cardinality(rows)
                      /\ result.rows_correct =
                            Cardinality({r \in rows :
                                \A f \in DOMAIN fields : <<r, f>> \in right})
                      /\ result.rows_total = Cardinality(rows)
                      /\ result.is_correct <=>
                            (Cardinality(rows) > 0
                               /\ 2 * Cardinality(right) >= 6 * Cardinality(rows))]_vars

\* a finished session with a one-rule firewall question, three of its six
\* fields right: exactly half, the question passes, the row is not complete
C9_Witness ==
    /\ Phase = "Completed"
    /\ \E n \in DOMAIN detailed_results :
          /\ detailed_results[n].question_type = "Firewall Rules"
          /\ detailed_results[n].score = 3
          /\ detailed_results[n].total = 6
          /\ detailed_results[n].rows_correct = 0
          /\ detailed_results[n].is_correct

(***************************************************************************)
(* C10: in the final pass, an item of a multi-select Classification/       *)
(* Matching question is correct iff the submitted and the correct value    *)
(* are equal as sets (a bare scalar is a singleton, an absent value the    *)
(* empty set), whatever the order and the repetitions in either list.      *)
(***************************************************************************)
C10_MultiSelectSetEquality ==
    [][Finishes =>
          \A i \in Indices :
              IsMatching(selected_questions[i + 1], TRUE) =>
                  \A idx \in 0 .. Len(selected_questions[i + 1].pbq_data.matching_items) - 1 :
                      detailed_results'[i + 1].items[idx + 1].is_correct <=>
                          (SetAt(Submitted(i), StrOf(idx))
                             = SetAt(CorrectOf(selected_questions[i + 1]), StrOf(idx)))]_vars

\* a finished session with a multi-select item judged correct although the
\* submitted list and the correct list differ as lists
C10_Witness ==
    /\ Phase = "Completed"
    /\ \E n \in DOMAIN detailed_results :
          /\ detailed_results[n].question_type = "Classification/Matching"
          /\ \E k \in DOMAIN detailed_results[n].items :
                /\ detailed_results[n].items[k].is_multi_select
                /\ detailed_results[n].items[k].is_correct
                /\ Len(detailed_results[n].items[k].user_answer.v) = 2
                /\ detailed_results[n].items[k].user_answer.v
                     # detailed_results[n].items[k].correct_answer.v

\* a PBQ whose correct_answer json.loads rejects
Malformed(question) == question.is_pbq /\ ~question.correct_answer.ok

(***************************************************************************)
(* C11: a PBQ whose correct_answer does not deserialize does not abort the *)
(* final pass.  finish leaves one detailed result per selected question;   *)
(* the result of the malformed question carries an error marker, no item   *)
(* breakdown and is_correct = FALSE; and it adds exactly one to the        *)
(* incorrect tally, which is the number of PBQs not judged correct.        *)
(***************************************************************************)
C11_MalformedGradedIncorrect ==
    [][Finishes =>
          /\ DOMAIN detailed_results' = 1 .. Len(selected_questions)
          /\ \A i \in Indices :
                Malformed(selected_questions[i + 1]) =>
                    /\ "error" \in DOMAIN detailed_results'[i + 1]
                    /\ detailed_results'[i + 1].items = <<>>
                    /\ "score" \notin DOMAIN detailed_results'[i + 1]
                    /\ ~detailed_results'[i + 1].is_correct
          /\ real_time_score'.incorrect =
                Cardinality({i \in Indices :
                    selected_questions[i + 1].is_pbq /\ ~detailed_results'[i + 1].is_correct})
          /\ real_time_score'.incorrect >=
                Cardinality({i \in Indices : Malformed(selected_questions[i + 1])})]_vars

\* a finished session whose first question was malformed and was followed
\* by two more questions, all three with a result
C11_Witness ==
    /\ Phase = "Completed"
    /\ Len(detailed_results) = 3
    /\ "error" \in DOMAIN detailed_results[1]
    /\ "score" \notin DOMAIN detailed_results[1]
    /\ detailed_results[1].items = <<>>
    /\ detailed_results[1].instructions = "mb"
    /\ real_time_score.incorrect >= 1

\* a PBQ whose final-pass total is 0
ZeroTotal(question) ==
    /\ question.is_pbq
    /\ \/ /\ PbqType(question) = "Classification/Matching"
          /\ question.pbq_data.matching_items = <<>>
       \/ /\ PbqType(question) = "Firewall Rules"
          /\ question.pbq_data.firewall_rules = <<>>

(***************************************************************************)
(* C12: a PBQ with total = 0 (a Classification/Matching question without   *)
(* items, a Firewall Rules question without rules) is unanswered for the   *)
(* real-time pass and for the final pass alike: neither pass adds it to    *)
(* the correct or to the incorrect tally.                                  *)
(***************************************************************************)
C12_ZeroTotalNotTallied ==
    [][/\ (practice_started' /\ real_time_score' # real_time_score) =>
             real_time_score'.correct + real_time_score'.incorrect
                <= Cardinality({n \in DOMAIN selected_questions' :
                                  ~ZeroTotal(selected_questions'[n])})
       /\ Finishes =>
             real_time_score'.correct + real_time_score'.incorrect
                <= Cardinality({n \in DOMAIN selected_questions :
                                  ~ZeroTotal(selected_questions[n])})]_vars

(***************************************************************************)
(* Runs of correct verdicts in the verdict sequence of the real-time pass. *)
(***************************************************************************)
\* the verdicts of the questions, in question order
Verdicts(questions, answers) ==
    [n \in 1 .. Len(questions) |->
        RealTimeVerdict(questions[n], Get(answers, n - 1, PyNone))]

\* the k verdicts from position a on are all correct
RunAt(v, a, k) ==
    /\ a + k - 1 <= Len(v)
    /\ \A m \in a .. a + k - 1 : v[m] = "correct"

\* the length of the run of correct verdicts that ends the sequence
TrailingRun(v) ==
    Cardinality({n \in DOMAIN v : \A m \in n .. Len(v) : v[m] = "correct"})

\* the length of the longest run of consecutive correct verdicts
LongestRun(v) ==
    CHOOSE k \in 0 .. Len(v) :
        /\ \E a \in 1 .. Len(v) + 1 : RunAt(v, a, k)
        /\ ~\E a \in 1 .. Len(v) : RunAt(v, a, k + 1)

\* a step of a session in progress that leaves a recomputed score
Recomputes == practice_started' /\ real_time_score' # real_time_score

(***************************************************************************)
(* C13: after a real-time recompute over a verdict sequence of correct and *)
(* incorrect questions, current_streak is the length of the trailing run   *)
(* of correct verdicts and best_streak the length of the longest run of    *)
(* consecutive correct verdicts.                                           *)
(***************************************************************************)
C13_StreaksAreRuns ==
    [][(/\ Recomputes
        /\ \A n \in DOMAIN selected_questions' :
              Verdicts(selected_questions', user_answers')[n] \in {"correct", "incorrect"}) =>
          /\ real_time_score'.current_streak =
                TrailingRun(Verdicts(selected_questions', user_answers'))
          /\ real_time_score'.best_streak =
                LongestRun(Verdicts(selected_questions', user_answers'))]_vars

\* four questions judged correct, correct, incorrect, correct: the best
\* streak is 2 and the current streak 1
C13_Witness ==
    /\ practice_started
    /\ Verdicts(selected_questions, user_answers)
          = <<"correct", "correct", "incorrect", "correct">>
    /\ real_time_score.best_streak = 2
    /\ real_time_score.current_streak = 1

\* the verdicts of the answered questions, in question order
AnsweredVerdicts(v) ==
    LET Answered(x) == x # "unanswered" IN SelectSeq(v, Answered)

(***************************************************************************)
(* C14: in the real-time recompute an unanswered question neither          *)
(* increments nor resets the streak: the streaks are those of the verdict  *)
(* sequence with the unanswered questions left out, so that only an        *)
(* incorrect verdict ends a run.                                           *)
(***************************************************************************)
C14_UnansweredKeepsStreak ==
    [][Recomputes =>
          /\ real_time_score'.current_streak =
                TrailingRun(AnsweredVerdicts(Verdicts(selected_questions', user_answers')))
          /\ real_time_score'.best_streak =
                LongestRun(AnsweredVerdicts(Verdicts(selected_questions', user_answers')))]_vars

(***************************************************************************)
(* C15: every answer mutation of a session in progress triggers a          *)
(* real-time recompute: after a step that changes user_answers, for a      *)
(* regular question or for an item or field of a PBQ, real_time_score is   *)
(* what calculate_real_time_score yields for the selected questions and    *)
(* the answers now stored.                                                 *)
(***************************************************************************)
C15_AnswerMutationRecomputes ==
    [][(practice_started /\ practice_started' /\ user_answers' # user_answers) =>
          real_time_score' =
              calculate_real_time_score(selected_questions', user_answers',
                                        real_time_score)]_vars

\* the answer stored for the question shown
CurrentAnswer == Get(user_answers, current_question_index, EmptyDict)

\* the value submitted is the one already stored
SameRegular(opt) ==
    /\ practice_started
    /\ ~current_question.is_pbq
    /\ PyEq(CurrentAnswer, PyStr(opt))

SameMatching(i, val) ==
    /\ practice_started
    /\ current_question.is_pbq
    /\ PbqType(current_question) = "Classification/Matching"
    /\ ~current_question.pbq_data.is_multi_select
    /\ StringAt(CurrentAnswer.v, StrOf(i)) = val

SameFirewall(i, f, val) ==
    /\ practice_started
    /\ current_question.is_pbq
    /\ PbqType(current_question) = "Firewall Rules"
    /\ FwKey(i, fields[f]) \in DOMAIN CurrentAnswer.v
    /\ CurrentAnswer.v[FwKey(i, fields[f])].v = val

(***************************************************************************)
(* C16: submitting an answer is idempotent.  Choosing again the value that *)
(* is already stored (the option of a regular question, the value of a     *)
(* single-select item, the value of a firewall field) leaves user_answers  *)
(* and the whole score snapshot as they were after the first submission:   *)
(* a step of a session in progress that changes the answers or the score   *)
(* is never a submission of the stored value.                              *)
(***************************************************************************)
C16_SubmitIdempotent ==
    [][(/\ practice_started
        /\ user_answers' # user_answers \/ real_time_score' # real_time_score) =>
          /\ \A opt \in {"A", "B"} :
                ~(SameRegular(opt) /\ AnswerRegular(opt))
          /\ \A i \in 0 .. 1, val \in {"", "X", "P", "Q"} :
                ~(SameMatching(i, val) /\ AnswerMatching(i, val))
          /\ \A f \in DOMAIN fields,
                val \in {"", "1", "10.0.0.1", "10.0.0.2", "TCP", "443", "ALLOW"} :
                ~(SameFirewall(0, f, val) /\ AnswerFirewall(0, f, val))]_vars

\* the second of two regular questions answered right, both counted in the
\* streak: choosing the same option again is possible here
C16_Witness ==
    /\ practice_started
    /\ current_question_index = 1
    /\ ~current_question.is_pbq
    /\ PyEq(CurrentAnswer, current_question.correct_answer)
    /\ real_time_score.current_streak = 2
    /\ ENABLED AnswerRegular(CurrentAnswer.v)

\* a step that starts a session
Starts == ~practice_started /\ practice_started'

\* a slot in which nothing has been chosen: {} as start_practice_session
\* leaves it, or what the first page writes for widgets without a choice
\* (None for the radio, "" for each select box)
EmptySlot(answer) ==
    \/ answer.t = "None"
    \/ /\ answer.t = "dict"
       /\ \A k \in DOMAIN answer.v : ~Truthy(answer.v[k])

(***************************************************************************)
(* C17: right after start the phase is InProgress, the cursor is 0, the    *)
(* detailed results are empty and user_answers holds one empty slot for    *)
(* each index 0 .. len(selected_questions) - 1 and no other entry,         *)
(* whatever the previous session left behind.                              *)
(***************************************************************************)
C17_StartResets ==
    [][Starts =>
          /\ Phase' = "InProgress"
          /\ current_question_index' = 0
          /\ detailed_results' = <<>>
          /\ DOMAIN user_answers' = 0 .. Len(selected_questions') - 1
          /\ \A i \in DOMAIN user_answers' : EmptySlot(user_answers'[i])]_vars

\* a second session that has just started on two PBQs: every slot is {}
\* while the score still shows the two graded questions of the first session
C17_Witness ==
    /\ practice_started
    /\ sessions = 2
    /\ current_question_index = 0
    /\ DOMAIN user_answers = {0, 1}
    /\ \A i \in DOMAIN user_answers : user_answers[i] = EmptyDict
    /\ real_time_score.total_answered = 2
    /\ real_time_score.correct >= 1

\* the option lists the page of the question at index shuffles, each with
\* the key its order is cached under
PageLists(question, index) ==
    IF ~question.is_pbq THEN {}
    ELSE IF PbqType(question) = "Classification/Matching"
    THEN {<<MatchingShuffleKey(index), question.pbq_data.all_options>>}
    ELSE {<<FirewallShuffleKey(index, r - 1, fields[f]),
            question.pbq_data.firewall_rules[r][option_fields[f]]>> :
             r \in DOMAIN question.pbq_data.firewall_rules, f \in DOMAIN fields}

(***************************************************************************)
(* C18: start clears the option-shuffle cache.  Right after start no order *)
(* cached in an earlier session remains: the cache holds at most the       *)
(* orders the first page has just created, each an order of an option list *)
(* of the question now at index 0.                                         *)
(***************************************************************************)
C18_StartClearsShuffleCache ==
    [][Starts =>
          \A key \in DOMAIN shuffled' :
              \E e \in PageLists(selected_questions'[1], 0) :
                  /\ e[1] = key
                  /\ shuffled'[key] \in Perms(e[2])]_vars

(***************************************************************************)
(* C19: shuffle stability.  Within one session with shuffle_options on, an *)
(* option order that has been displayed for a question index (or a         *)
(* question index, rule and field) stays the order every later display of  *)
(* it returns: no step of the session removes or changes a cached order,   *)
(* switches the option shuffling or changes the questions.                 *)
(***************************************************************************)
C19_ShuffleStable ==
    [][(practice_started /\ practice_started') =>
          /\ shuffle_options' = shuffle_options
          /\ \A key \in DOMAIN shuffled :
                key \in DOMAIN shuffled' /\ shuffled'[key] = shuffled[key]
          /\ selected_questions' = selected_questions]_vars

\* the first session, back on the first page after the second page has
\* shown its two options in the order Q, P, the reverse of all_options
C19_Witness ==
    /\ practice_started
    /\ sessions = 1
    /\ shuffle_options
    /\ current_question_index = 0
    /\ MatchingShuffleKey(1) \in DOMAIN shuffled
    /\ shuffled[MatchingShuffleKey(1)] = <<"Q", "P">>
    /\ selected_questions[2].pbq_data.all_options = <<"P", "Q">>

(***************************************************************************)
(* C20: reset after finish puts the session in Configuring with            *)
(* user_answers empty, detailed_results empty and the cursor at 0.         *)
(***************************************************************************)
C20_ResetClears ==
    [][(Phase = "Completed" /\ Phase' = "Configuring") =>
          /\ user_answers' = <<>>
          /\ detailed_results' = <<>>
          /\ current_question_index' = 0]_vars

\* the settings page after a session of three questions was finished and
\* reset: the score of that session is still in real_time_score
C20_Witness ==
    /\ Phase = "Configuring"
    /\ sessions = 1
    /\ real_time_score.total_answered = 3
    /\ user_answers = <<>>
    /\ detailed_results = <<>>
    /\ current_question_index = 0

(***************************************************************************)
(* C21: no leakage between sessions.  After a reset and a new start the    *)
(* score snapshot shown for the new session holds nothing of the session   *)
(* before: until an answer is submitted, correct = 0, incorrect = 0,       *)
(* current_streak = 0, best_streak = 0 and accuracy = 0.                   *)
(***************************************************************************)
C21_NoScoreLeakage ==
    [][(Starts /\ Phase = "Configuring" /\ sessions >= 1) =>
          /\ real_time_score'.correct = 0
          /\ real_time_score'.incorrect = 0
          /\ real_time_score'.current_streak = 0
          /\ real_time_score'.best_streak = 0
          /\ real_time_score'.accuracy.num = 0]_vars

(***************************************************************************)
(* C22: the final pass runs once per session, on the finish transition,    *)
(* and its results are immutable afterwards: detailed_results is filled    *)
(* only by a step that finishes a session, and in the Completed phase no   *)
(* event other than the reset changes it.                                  *)
(***************************************************************************)
C22_ResultsImmutable ==
    [][/\ (detailed_results' # detailed_results /\ detailed_results' # <<>>) => Finishes
       /\ (Phase = "Completed" /\ detailed_results' # detailed_results) =>
             Phase' = "Configuring"]_vars

(***************************************************************************)
(* C23: after finish detailed_results holds exactly one result per         *)
(* selected question, in question order: the k-th result has question_num  *)
(* k (from 1) and describes the k-th question, whatever the answers were.  *)
(***************************************************************************)
C23_OneResultPerQuestion ==
    [][Finishes =>
          /\ Len(detailed_results') = Len(selected_questions)
          /\ \A k \in DOMAIN selected_questions :
                /\ detailed_results'[k].question_num = k
                /\ detailed_results'[k].question_type = PbqType(selected_questions[k])
                /\ detailed_results'[k].instructions =
                      selected_questions[k].pbq_data.instructions]_vars

\* a finished session of four questions, the third answered wrong: four
\* results, numbered 1 to 4
C23_Witness ==
    /\ Phase = "Completed"
    /\ Len(detailed_results) = 4
    /\ \A k \in 1 .. 4 : detailed_results[k].question_num = k
    /\ user_answers[2] = PyStr("B")

\* the count the settings page holds: the slider's value, or 1 for a bank
\* of one question, which has no slider
ConfiguredCount == IF Len(question_bank) = 1 THEN 1 ELSE question_count_slider

(***************************************************************************)
(* C24: the session runs on the first count questions of the bank in bank  *)
(* order when shuffle_questions is off, and on the first count questions   *)
(* of the shuffled bank when it is on, so that with shuffling every        *)
(* question of the bank, one at a position >= count too, can be part of    *)
(* the session that is started.                                            *)
(***************************************************************************)
C24_SelectsFromShuffledBank ==
    [][/\ (Starts /\ ~shuffle_questions) =>
             selected_questions' = Take(question_bank, ConfiguredCount)
       /\ (Starts /\ shuffle_questions) =>
             \E p \in Perms(question_bank) :
                 selected_questions' = Take(p, ConfiguredCount)
       /\ (~practice_started /\ shuffle_questions /\ sessions < MaxSessions) =>
             \A n \in DOMAIN question_bank :
                 ENABLED (/\ StartPractice
                          /\ \E k \in DOMAIN selected_questions' :
                                selected_questions'[k] = question_bank[n])]_vars

(***************************************************************************)
(* C25: whenever a session is in progress, the number of selected          *)
(* questions is at least 1 and at most the size of the bank, whatever      *)
(* count the slider was moved to before the start.                         *)
(***************************************************************************)
C25_CountClamped ==
    practice_started =>
        /\ 1 <= Len(selected_questions)
        /\ Len(selected_questions) <= Len(question_bank)

C25_Witness ==
    /\ practice_started
    /\ Len(question_bank) = 4
    /\ Len(selected_questions) = 1
    /\ sessions = 2

\* the answered-predicate as the kinds of question define it, for the page shown
AnsweredByKind ==
    LET question == current_question
        answer == CurrentAnswer
        submitted == IF answer.t = "dict" THEN answer.v ELSE <<>>
    IN  IF ~question.is_pbq
        THEN answer.t = "str" /\ answer.v # ""
        ELSE IF PbqType(question) = "Classification/Matching"
        THEN \A i \in 0 .. Len(question.pbq_data.matching_items) - 1 :
                IF question.pbq_data.is_multi_select
                THEN SetAt(submitted, StrOf(i)) # {}
                ELSE StringAt(submitted, StrOf(i)) # ""
        ELSE IF PbqType(question) = "Firewall Rules"
        THEN \A i \in 0 .. Len(question.pbq_data.firewall_rules) - 1 :
                \A f \in DOMAIN fields :
                    StringAt(submitted, FwKey(i, fields[f])) # ""
        ELSE FALSE

(***************************************************************************)
(* C26: the answered-predicate that gates Next and Submit holds exactly    *)
(* when: a regular question has a stored answer that is neither null nor   *)
(* empty; every item of a single-select matching question has a non-empty  *)
(* value; every item of a multi-select matching question has a non-empty   *)
(* selection; every field of every row of a firewall question has a        *)
(* non-empty value.                                                        *)
(***************************************************************************)
C26_AnsweredPredicate ==
    practice_started => (AllAnswered <=> AnsweredByKind)

C26_Witness ==
    /\ practice_started
    /\ PbqType(current_question) = "Firewall Rules"
    /\ Len(current_question.pbq_data.firewall_rules) >= 1
    /\ AllAnswered
    /\ AnsweredByKind

(***************************************************************************)
(* C27: during a session with the cursor past the first question, Previous *)
(* can always be taken, whether the current question is answered or not;   *)
(* a step back moves the cursor by exactly one and leaves user_answers,    *)
(* selected_questions and the phase as they were.                          *)
(***************************************************************************)
C27_RetreatAlwaysPermitted ==
    [][/\ (practice_started /\ current_question_index > 0) => ENABLED Previous
       /\ (/\ practice_started
           /\ practice_started'
           /\ current_question_index' < current_question_index) =>
             /\ current_question_index' = current_question_index - 1
             /\ Phase' = Phase
             /\ UNCHANGED <<user_answers, selected_questions>>]_vars

C27_Witness ==
    /\ practice_started
    /\ current_question_index = 0
    /\ Len(selected_questions) >= 2
    /\ 1 \in DOMAIN user_answers
    /\ ~all_answered(selected_questions[2], user_answers[1])
    /\ user_answers[1] # EmptyDict

\* the values that hold the elements of val in another order
ReorderedValue(val) ==
    IF val.t = "list" THEN {PyList(p) : p \in Perms(val.v)} ELSE {val}

\* the answers to one question that differ from answer in the order of the
\* elements of its selections only
ReorderedAnswer(answer) ==
    IF answer.t = "dict"
    THEN {PyDict(d) : d \in {e \in [DOMAIN answer.v ->
                                        UNION {ReorderedValue(answer.v[k]) :
                                                   k \in DOMAIN answer.v}] :
                                 \A k \in DOMAIN answer.v :
                                     e[k] \in ReorderedValue(answer.v[k])}}
    ELSE {answer}

\* the answer maps that are equal to answers item by item as sets
Reorderings(answers) ==
    {r \in [DOMAIN answers -> UNION {ReorderedAnswer(answers[i]) : i \in DOMAIN answers}] :
        \A i \in DOMAIN answers : r[i] \in ReorderedAnswer(answers[i])}

(***************************************************************************)
(* C28: the real-time recompute compares the selections of a multi-select  *)
(* matching question as sets, as the final grading does: the answers it    *)
(* has just scored and any answers that differ from them in the order of   *)
(* the selected options only get the same counts of correct and incorrect  *)
(* questions.                                                              *)
(***************************************************************************)
C28_RealTimeOrderIndependent ==
    [][Recomputes =>
          \A r \in Reorderings(user_answers') :
              LET score == calculate_real_time_score(selected_questions', r,
                                                     real_time_score)
              IN  /\ score.correct = real_time_score'.correct
                  /\ score.incorrect = real_time_score'.incorrect]_vars

\* the keys of a submitted mapping that hold a non-empty value
SubmittedItems(submitted) == {k \in DOMAIN submitted : Truthy(submitted[k])}

\* the real-time verdict of one question when a PBQ with submitted items is
\* measured against the number of those items
VerdictOverSubmitted(question, user_answer) ==
    IF /\ WellFormed(question)
       /\ question.correct_answer.val.t = "dict"
       /\ user_answer.t = "dict"
       /\ SubmittedItems(user_answer.v) # {}
    THEN LET items == SubmittedItems(user_answer.v)
             right == {k \in items :
                          /\ k \in DOMAIN CorrectOf(question)
                          /\ PyEq(user_answer.v[k], CorrectOf(question)[k])}
         IN  IF 2 * Cardinality(right) >= Cardinality(items)
             THEN "correct" ELSE "incorrect"
    ELSE RealTimeVerdict(question, user_answer)

(***************************************************************************)
(* C29: in the real-time pass a PBQ is correct iff at least half of the    *)
(* items the user has submitted equal their correct value: the denominator *)
(* is the number of submitted items, not the number of items the question  *)
(* has.                                                                    *)
(***************************************************************************)
C29_RealTimeOverSubmitted ==
    [][Recomputes =>
          real_time_score'.correct =
              Cardinality({k \in DOMAIN selected_questions' :
                              VerdictOverSubmitted(selected_questions'[k],
                                                   user_answers'[k - 1]) = "correct"})]_vars

\* the keys the items of a matching question, or the fields of the rows of a
\* firewall question, are submitted under
CanonicalKeys(question) ==
    IF PbqType(question) = "Classification/Matching"
    THEN {StrOf(i) : i \in 0 .. Len(question.pbq_data.matching_items) - 1}
    ELSE {FwKey(i, fields[f]) :
              i \in 0 .. Len(question.pbq_data.firewall_rules) - 1, f \in DOMAIN fields}

\* a single-select matching or firewall question, answered in full, whose
\* correct_answer has the canonical keys and no others
FullyAnsweredCanonical(question, user_answer) ==
    /\ IsMatching(question, FALSE) \/ IsFirewall(question)
    /\ question.correct_answer.val.t = "dict"
    /\ DOMAIN CorrectOf(question) = CanonicalKeys(question)
    /\ user_answer.t = "dict"
    /\ all_answered(question, user_answer)

(***************************************************************************)
(* C30: when the session is finished, every single-select matching or     *)
(* firewall question that is answered in full, and whose correct_answer    *)
(* has exactly the canonical keys, is correct in the final results iff the *)
(* real-time pass counts it as correct.                                    *)
(***************************************************************************)
C30_PassesConsistent ==
    [][Finishes =>
          \A k \in DOMAIN selected_questions :
              FullyAnsweredCanonical(selected_questions[k], user_answers[k - 1]) =>
                  (detailed_results'[k].is_correct <=>
                       RealTimeVerdict(selected_questions[k], user_answers[k - 1])
                           = "correct")]_vars

C30_Witness ==
    /\ Phase = "Completed"
    /\ detailed_results # <<>>
    /\ Len(detailed_results) = Len(selected_questions)
    /\ \E k \in DOMAIN selected_questions :
          /\ k - 1 \in DOMAIN user_answers
          /\ selected_questions[k] = Match1
          /\ FullyAnsweredCanonical(Match1, user_answers[k - 1])
          /\ detailed_results[k].is_correct
          /\ RealTimeVerdict(Match1, user_answers[k - 1]) = "correct"

NothingChosen(answer) ==
    IF answer.t = "dict"
    THEN \A k \in DOMAIN answer.v : ~Truthy(answer.v[k])
    ELSE answer.t = "None"

(***************************************************************************)
(* C32: answers are accepted during a session only.  A step taken while no *)
(* session is in progress changes user_answers only by clearing them: it   *)
(* is a start, which leaves one slot per question with nothing chosen in   *)
(* it, or a reset, which leaves no answers at all.                         *)
(***************************************************************************)
C32_AnswersOnlyInProgress ==
    [][(~practice_started /\ user_answers' # user_answers) =>
          \/ /\ Starts
             /\ DOMAIN user_answers' = 0 .. Len(selected_questions') - 1
             /\ \A i \in DOMAIN user_answers' : NothingChosen(user_answers'[i])
          \/ /\ Phase = "Completed"
             /\ Phase' = "Configuring"
             /\ user_answers' = <<>>]_vars

C32_Witness ==
    /\ Phase = "Completed"
    /\ \E i \in DOMAIN user_answers : ~NothingChosen(user_answers[i])
    /\ ENABLED StartNewPractice
    /\ ENABLED StartPractice

\* a step of a session that stays on its page and changes an answer
AnswerEvent ==
    /\ practice_started
    /\ practice_started'
    /\ current_question_index' = current_question_index
    /\ user_answers' # user_answers

\* the mapping new is the mapping old with the value under key changed or added
MergedAt(old, new, key) ==
    /\ DOMAIN new = DOMAIN old \cup {key}
    /\ \A k \in DOMAIN old \ {key} : new[k] = old[k]

(***************************************************************************)
(* C33: an answer event on question i changes user_answers[i] only, and    *)
(* for a matching or firewall question it changes only the value under     *)
(* one field key of that mapping: the values under the other keys, the     *)
(* answers to the other questions, the cursor, selected_questions and the  *)
(* phase stay as they were.                                                *)
(***************************************************************************)
C33_AnswerMerges ==
    [][AnswerEvent =>
          /\ selected_questions' = selected_questions
          /\ Phase' = Phase
          /\ DOMAIN user_answers' = DOMAIN user_answers
          /\ \A j \in DOMAIN user_answers \ {current_question_index} :
                user_answers'[j] = user_answers[j]
          /\ current_question.is_pbq =>
                /\ user_answers'[current_question_index].t = "dict"
                /\ \E key \in DOMAIN user_answers'[current_question_index].v :
                      MergedAt(Submitted(current_question_index),
                               user_answers'[current_question_index].v, key)]_vars

C33_Witness ==
    /\ practice_started
    /\ current_question = Match1
    /\ Submitted(current_question_index) =
          [k \in {"0", "1"} |-> PyStr("X")]
    /\ \E j \in DOMAIN user_answers :
          j # current_question_index /\ ~NothingChosen(user_answers[j])

\* the entries of a result that are marked correct though the user submitted
\* no value for them and their correct value is not empty: items of a matching
\* question, fields of the rows of a firewall question
BlankMarkedCorrect(question, submitted, result) ==
    IF PbqType(question) = "Classification/Matching"
    THEN {idx \in 0 .. Len(question.pbq_data.matching_items) - 1 :
             /\ idx + 1 \in DOMAIN result.items
             /\ SetAt(submitted, StrOf(idx)) = {}
             /\ SetAt(CorrectOf(question), StrOf(idx)) # {}
             /\ result.items[idx + 1].is_correct}
    ELSE {c \in (0 .. Len(question.pbq_data.firewall_rules) - 1) \X DOMAIN fields :
             /\ c[1] + 1 \in DOMAIN result.items
             /\ SetAt(submitted, FwKey(c[1], fields[c[2]])) = {}
             /\ SetAt(CorrectOf(question), FwKey(c[1], fields[c[2]])) # {}
             /\ result.items[c[1] + 1].fields[c[2]].is_correct}

\* the entries of a result that are marked incorrect, for which the user
\* submitted no value, and whose correct value is not empty
BlankMarkedIncorrect(question, submitted, result) ==
    IF PbqType(question) = "Classification/Matching"
    THEN {idx \in 0 .. Len(question.pbq_data.matching_items) - 1 :
             /\ idx + 1 \in DOMAIN result.items
             /\ SetAt(submitted, StrOf(idx)) = {}
             /\ SetAt(CorrectOf(question), StrOf(idx)) # {}
             /\ ~result.items[idx + 1].is_correct}
    ELSE {c \in (0 .. Len(question.pbq_data.firewall_rules) - 1) \X DOMAIN fields :
             /\ c[1] + 1 \in DOMAIN result.items
             /\ SetAt(submitted, FwKey(c[1], fields[c[2]])) = {}
             /\ SetAt(CorrectOf(question), FwKey(c[1], fields[c[2]])) # {}
             /\ ~result.items[c[1] + 1].fields[c[2]].is_correct}

(***************************************************************************)
(* C34: in the final results no item of a matching question and no field   *)
(* of a firewall question is marked correct when the user submitted no     *)
(* value for it and its correct value is not empty.                        *)
(***************************************************************************)
C34_BlankNeverCorrect ==
    [][Finishes =>
          \A k \in DOMAIN selected_questions :
              (IsMatching(selected_questions[k], TRUE)
                 \/ IsMatching(selected_questions[k], FALSE)
                 \/ IsFirewall(selected_questions[k])) =>
                  BlankMarkedCorrect(selected_questions[k], Submitted(k - 1),
                                     detailed_results'[k]) = {}]_vars

C34_Witness ==
    /\ Phase = "Completed"
    /\ Len(detailed_results) = Len(selected_questions)
    /\ \E k \in DOMAIN selected_questions :
          /\ k - 1 \in DOMAIN user_answers
          /\ IsFirewall(selected_questions[k])
          /\ detailed_results[k].question_type = "Firewall Rules"
          /\ BlankMarkedIncorrect(selected_questions[k], Submitted(k - 1),
                                  detailed_results[k]) # {}
          /\ detailed_results[k].score > 0

(***************************************************************************)
(* C35: whenever a matching or firewall question is shown with             *)
(* shuffle_options on, every option list shown for it (the one list of a   *)
(* matching question, the list of each field of each rule of a firewall    *)
(* question) is a permutation of that question's own option list, in the   *)
(* first session and in every later one.                                   *)
(***************************************************************************)
C35_ShownOptionsAreOwn ==
    (practice_started /\ shuffle_options) =>
        \A e \in PageLists(current_question, current_question_index) :
            /\ e[1] \in DOMAIN shuffled
            /\ shuffled[e[1]] \in Perms(e[2])

(***************************************************************************)
(* C36: in every Completed state the report matches the session it         *)
(* reports on: detailed_results has as many entries as selected_questions  *)
(* (the Total Questions of the summary), and its k-th entry carries the    *)
(* type and the instructions of the question at position k of              *)
(* selected_questions.                                                     *)
(***************************************************************************)
C36_ReportMatchesSession ==
    Phase = "Completed" =>
        /\ Len(detailed_results) = Len(selected_questions)
        /\ \A k \in DOMAIN detailed_results :
              /\ detailed_results[k].question_type = PbqType(selected_questions[k])
              /\ detailed_results[k].instructions =
                    selected_questions[k].pbq_data.instructions

\* the number of questions a score accounts for
Tallied(score) == score.correct + score.incorrect + score.unanswered

(***************************************************************************)
(* C37: the score partitions the session: after every real-time recompute  *)
(* and after the session is finished, correct + incorrect + unanswered is  *)
(* the number of questions of the session.                                 *)
(***************************************************************************)
C37_TallyPartitions ==
    [][/\ Recomputes => Tallied(real_time_score') = Len(selected_questions')
       /\ Finishes => Tallied(real_time_score') = Len(selected_questions)]_vars

\* the PBQs of a session for which the user has chosen no non-empty value
BlankPbqs(questions, answers) ==
    {k \in DOMAIN questions :
        /\ questions[k].is_pbq
        /\ k - 1 \in DOMAIN answers
        /\ NothingChosen(answers[k - 1])}

(***************************************************************************)
(* C38: a real-time recompute counts every PBQ for which the user has      *)
(* chosen no non-empty value as unanswered, never as incorrect; a firewall *)
(* question that was only displayed, with every field left blank, is one   *)
(* of them.                                                                *)
(***************************************************************************)
C38_BlankPbqUnanswered ==
    [][Recomputes =>
          /\ real_time_score'.unanswered >=
                Cardinality(BlankPbqs(selected_questions', user_answers'))
          /\ \A k \in BlankPbqs(selected_questions', user_answers') :
                RealTimeVerdict(selected_questions'[k], user_answers'[k - 1])
                    = "unanswered"]_vars

(***************************************************************************)
(* The user who works through a session: every answer event fills an item  *)
(* or field that holds no value yet with a non-empty one, and the only     *)
(* buttons pressed during a session are Next and Submit.                   *)
(***************************************************************************)
\* an option of a regular question that has no answer yet is chosen
FillRegular ==
    /\ practice_started
    /\ ~AllAnswered
    /\ \E opt \in {"A", "B"} : AnswerRegular(opt)

\* an option is chosen for an item of a matching question that has no value yet
FillMatching ==
    /\ practice_started
    /\ \E i \in 0 .. 2, val \in {"X", "P", "Q"} :
          /\ ~Truthy(Get(Submitted(current_question_index), StrOf(i), PyNone))
          /\ AnswerMatching(i, val)

\* an option is chosen for a field of a firewall rule that has no value yet
FillFirewall ==
    /\ practice_started
    /\ \E i \in 0 .. 0, f \in 1 .. 6,
          val \in {"1", "10.0.0.1", "10.0.0.2", "TCP", "443", "ALLOW"} :
          /\ ~Truthy(Get(Submitted(current_question_index), FwKey(i, fields[f]), PyNone))
          /\ AnswerFirewall(i, f, val)

Fill == FillRegular \/ FillMatching \/ FillFirewall

LiveNext ==
    \/ \E count \in 1 .. 10 : SetQuestionCount(count)
    \/ ToggleShuffleQuestions
    \/ ToggleShuffleOptions
    \/ StartPractice
    \/ FillRegular
    \/ FillMatching
    \/ FillFirewall
    \/ Next_
    \/ Submit
    \/ StartNewPractice

\* The user does not walk away from a page: an item that can be filled is
\* filled in the end, and an enabled Next or Submit is pressed in the end.
\* SubmitPressed is the step of Submit that ends the session, by its guard and by the first
\* assignment of end_practice_session; of the steps of LiveNext only those of
\* Submit are such steps, and end_practice_session has no guard of its own
SubmitPressed ==
    /\ practice_started
    /\ ~(current_question_index < Len(selected_questions) - 1)
    /\ AllAnswered
    /\ practice_started' = FALSE

LiveSpec ==
    /\ Init
    /\ [][LiveNext]_vars
    /\ WF_vars(Fill \/ Next_)
    /\ WF_practice_started(SubmitPressed)

\* every PBQ of the bank has a correct_answer that is JSON, at least one item
\* or rule, and at least one option to choose for each of them
WellFormedBank ==
    \A n \in DOMAIN question_bank :
        LET question == question_bank[n]
        IN  question.is_pbq =>
               /\ WellFormed(question)
               /\ \/ /\ PbqType(question) = "Classification/Matching"
                     /\ question.pbq_data.matching_items # <<>>
                     /\ question.pbq_data.all_options # <<>>
                  \/ /\ PbqType(question) = "Firewall Rules"
                     /\ question.pbq_data.firewall_rules # <<>>
                     /\ \A r \in DOMAIN question.pbq_data.firewall_rules :
                           \A f \in DOMAIN fields :
                              question.pbq_data.firewall_rules[r][option_fields[f]] # <<>>

(***************************************************************************)
(* C39: when the user keeps answering the current question in full and     *)
(* then presses Next, or Submit on the last question, the advance is never *)
(* blocked, the session is finished from its last question, that is after  *)
(* len(selected_questions) - 1 advances, and every session on a bank of    *)
(* well-formed questions that is started reaches Completed.                *)
(***************************************************************************)
C39_SessionProgress ==
    /\ [][(practice_started /\ AllAnswered) =>
              (ENABLED <<Next_>>_vars) \/ (ENABLED SubmitPressed)]_vars
    /\ [][Finishes => current_question_index = Len(selected_questions) - 1]_vars
    /\ (practice_started /\ WellFormedBank) ~> Phase = "Completed"

C39_Witness ==
    /\ Phase = "Completed"
    /\ current_question_index = 3
    /\ Len(detailed_results) = 4
    /\ \A i \in 0 .. 3 : ~NothingChosen(user_answers[i])


\* C40: no session event (changing a setting, starting with or without
\* shuffled questions, answering, Next, Previous, Submit, End Practice, Start New
\* Practice) changes the question bank: after every step it holds the same
\* questions in the same order, also when the bank has one question and
\* selected_questions is the bank list itself, which the start shuffles in place.
C40_BankUnchanged ==
    [][question_bank' = question_bank]_vars

\* a second session was started with shuffled questions on a bank of one
\* question, whose selection is the bank list itself
C40_Witness ==
    /\ Len(question_bank) = 1
    /\ shuffle_questions
    /\ practice_started
    /\ sessions = 2
    /\ selected_questions = question_bank

====
